---- MODULE Spec2Model ----
(***************************************************************************)
(* Verification model of the ai-notes recorder back end.                   *)
(*                                                                         *)
(* The repository holds three recorder front ends that are never run in   *)
(* the same process.  The variable impl selects which one a behaviour     *)
(* follows:                                                                *)
(*   "cb"   - recorder.py driving the callback-based AudioRecorder of     *)
(*            audio_recorder.py and transcriber.py;                       *)
(*   "svc"  - api/recorder.py driving the polling AudioRecorder and       *)
(*            record_and_transcribe of services/recorder.py and           *)
(*            services/transcriber.py;                                    *)
(*   "api"  - recorder_api.py starting, stopping and monitoring a         *)
(*            recorder.py subprocess;                                     *)
(*   "bulk" - recorder_api.py transcribing the stored clips in bulk       *)
(*            while a recorder.py subprocess it has started is running,   *)
(*            each POST /api/recorder/transcribe starting a worker that   *)
(*            may overlap the others;                                      *)
(*   "read" - the same with a reader of get_status, the client posting    *)
(*            /api/recorder/transcribe again only after the worker of its *)
(*            previous request has returned.                               *)
(*                                                                         *)
(* The tagging functions of tagging.py, services/tagging.py and          *)
(* update_tags.py are pure functions of a text or of a note file.  They   *)
(* are checked under TagSpec, where impl names the function that is       *)
(* called ("tags", "keywords", "classify", "purpose", "retag") on a text  *)
(* drawn from Texts.                                                       *)
(*                                                                         *)
(* Time is counted in capture frames: one tick of now is one frame        *)
(* period.  A frame is represented by the class the voice-activity        *)
(* detector gives it ("speech", "silence") or by "bad" when the detector  *)
(* raises on it.                                                           *)
(***************************************************************************)
EXTENDS Integers, Sequences, FiniteSets, TLC

\* ------------------------------------------------------------------ bounds
\* config.SILENCE_THRESHOLD (120 s in the source), scaled to model time units
SILENCE_THRESHOLD == 1
\* frames the input device delivers to one session at most
MaxFrames == SILENCE_THRESHOLD + 2
\* recording sessions all recorder runs together start at most
MaxSessions == 1
\* recorder threads (api/recorder.py) or subprocesses (recorder_api.py)
\* started at most
MaxStarts == 2
\* clips the recorder subprocesses of recorder_api.py save at most
MaxClips == 1
\* bulk transcriptions that run at the same time at most
MaxJobs == 2
\* words a tagged text has at most, a long padding word not counted
MaxWords == 2
\* calls of a tagging function on one text at most
MaxCalls == 2

\* Python None; a clip or note name is a one-element tuple
None == <<>>
\* recording_<timestamp>.wav, as named by save_audio / stop_recording: a new
\* time stamp is larger than those of the clips already in the directory, so
\* the k-th clip saved is named <<k>>
ClipName(files) == <<Cardinality(DOMAIN files) + 1>>
\* what a written clip file holds
ClipContent(frames) == IF Len(frames) = 0 THEN "empty" ELSE "audio"
FrameKinds == {"speech", "silence", "bad"}
\* what the speech-to-text engine does with a clip
EngineOutcomes == {"text", "empty", "raise"}

VARIABLES
    impl,             \* which front end this behaviour follows
    now,              \* time.time(), in frame periods since the stream opened
    audio_files,      \* AUDIO_DIR: clip name -> content of the file
    notes,            \* NOTES_DIR: clip name -> transcript stored in the note
    engine_failed,    \* clips on which the speech-to-text engine raised last
    \* ---- recorder.py + audio_recorder.py
    cb_pc,            \* position of the main thread in record_and_transcribe
    cb_running,       \* recorder.running
    cb_continuous,    \* the continuous argument
    is_recording,     \* AudioRecorder.is_recording
    audio_buffer,     \* AudioRecorder.audio_buffer
    last_voice_time,  \* AudioRecorder.last_voice_time
    cb_stream,        \* the sd.InputStream of start_recording
    cb_fed,           \* frames the device delivered to the current session
    cb_audio_file,    \* audio_file in record_and_transcribe
    cb_sessions,      \* sessions started so far
    cb_after_stop,    \* frames the callback handled since the stop signal
    cb_error,         \* history: the current session met a device error
    \* ---- api/recorder.py + services/recorder.py + services/transcriber.py
    svc_running,          \* services.recorder.running
    svc_recorder_process, \* api.recorder.recorder_process: thread id, 0 = None
    svc_recorder_status,  \* api.recorder.recorder_status["status"]
    svc_loop,             \* handler the event loop is in the middle of
    svc_resp,             \* response to the latest request
    svc_spawned,          \* recorder threads started so far
    svc_sessions,         \* sessions started so far
    rt,                   \* recorder threads: locals and AudioRecorder fields
    \* ---- recorder_api.py
    api_recorder_process, \* recorder_api.recorder_process: pid, 0 = None
    procs,                \* recorder.py subprocesses: "none", "alive", "exited"
    api_spawned,          \* subprocesses started so far
    recorder_status,      \* recorder_api.recorder_status
    mon,                  \* _monitor_recorder_output threads
    jobs,                 \* transcribe_untranscribed_files runs
    api_resp,             \* response to the latest request
    snap,                 \* the value get_status returned to the last reader
    \* ---- tagging.py + services/tagging.py + update_tags.py
    tg_text,              \* the text the tagging functions are called with
    tg_calls,             \* calls made so far
    tg_out,               \* what the calls returned, in their order
    tg_note,              \* the note file update_transcription_tags works on
    tg_ret                \* the last call of update_transcription_tags

cbVars == <<cb_pc, cb_running, cb_continuous, is_recording, audio_buffer,
            last_voice_time, cb_stream, cb_fed, cb_audio_file, cb_sessions,
            cb_after_stop, cb_error>>
svcVars == <<svc_running, svc_recorder_process, svc_recorder_status,
             svc_loop, svc_resp, svc_spawned, svc_sessions, rt>>
diskVars == <<audio_files, notes, engine_failed>>
apiVars == <<api_recorder_process, procs, api_spawned, recorder_status, mon,
             jobs, api_resp, snap>>
tagVars == <<tg_text, tg_calls, tg_out, tg_note, tg_ret>>
vars == <<impl, now, diskVars, cbVars, svcVars, apiVars, tagVars>>

\* f with key k bound to v (dict assignment / file creation)
Put(f, k, v) == [x \in (DOMAIN f) \cup {k} |-> IF x = k THEN v ELSE f[x]]
EmptyMap == [x \in {} |-> 0]

\* ------------------------------------------------ transcriber.py
\* Transcriber.transcribe: the result dict {"text": t} is the tuple <<t>>;
\* an engine exception is answered with the empty result, not with None
TranscriberTranscribe(clip, files, outcome) ==
    IF clip \notin DOMAIN files THEN None
    ELSE IF outcome = "text" THEN <<"text">>
    ELSE IF outcome = "empty" THEN <<"">>
    ELSE <<"">>

\* Transcriber.save_transcript: the notes directory after the call
TranscriberSave(nts, data, clip, written) ==
    IF data # None /\ written THEN Put(nts, clip, data[1]) ELSE nts

\* the clips recorded as failed after the engine answered outcome for clip
FailedAfter(failed, clip, outcome) ==
    IF outcome = "raise" THEN failed \cup {clip} ELSE failed \ {clip}

\* ------------------------------------------------ config.py
SAMPLE_RATE == 16000
FRAME_DURATION_MS == 30
CHANNELS == 1

\* ------------------------------------------------ audio_recorder.py
\* AudioRecorder.frame_size: samples of one voice-detector frame
frame_size == (SAMPLE_RATE * FRAME_DURATION_MS) \div 1000

\* samples of the frame callback hands to is_speech: the stream is opened
\* with blocksize = frame_size and indata.flatten() joins the channels
CbVadSamples == frame_size * CHANNELS

\* AudioRecorder.is_speech: a detector error is logged and read as not-speech
is_speech(frame) == frame = "speech"

\* the silence test of AudioRecorder.callback (line 69)
CbSilenceElapsed(t, last) == t - last > SILENCE_THRESHOLD

\* save_audio without the emptiness tests of lines 94 and 98
CbSaveWritesAlways(buffer) == Len(buffer) >= 0

\* AudioRecorder.save_audio: nothing is written for an empty buffer
CbSaveWrites(buffer) == Len(buffer) > 0

\* AudioRecorder.callback, run by the audio thread for each delivered frame
CbCallback ==
    /\ UNCHANGED tagVars
    /\ UNCHANGED <<svcVars, apiVars>>
    /\ impl = "cb" /\ cb_pc = "sleeping" /\ cb_stream = "active"
    /\ Len(cb_fed) < MaxFrames
    /\ \E frame \in FrameKinds :
         LET t    == now + 1
             rec1 == is_recording \/ is_speech(frame)
             last == IF is_speech(frame) THEN t ELSE last_voice_time
             buf  == IF rec1 THEN Append(audio_buffer, frame) ELSE audio_buffer
             fin  == rec1 /\ CbSilenceElapsed(t, last)
         IN /\ now' = t
            /\ cb_fed' = Append(cb_fed, frame)
            /\ last_voice_time' = last
            /\ audio_buffer' = buf
            /\ is_recording' = (rec1 /\ ~fin)
            /\ cb_stream' = IF fin THEN "stopped" ELSE "active"
            /\ cb_after_stop' = IF cb_running THEN 0 ELSE cb_after_stop + 1
    /\ UNCHANGED <<impl, diskVars, cb_pc, cb_running, cb_continuous,
                   cb_audio_file, cb_sessions, cb_error>>

\* ------------------------------------------------ recorder.py
\* signal_handler: SIGINT / SIGTERM clear the running flag
CbSignal ==
    /\ UNCHANGED tagVars
    /\ UNCHANGED <<svcVars, apiVars>>
    /\ impl = "cb" /\ cb_pc # "done" /\ cb_running
    /\ cb_running' = FALSE
    /\ cb_after_stop' = 0
    /\ UNCHANGED <<impl, now, diskVars, cb_pc, cb_continuous, is_recording,
                   audio_buffer, last_voice_time, cb_stream, cb_fed,
                   cb_audio_file, cb_sessions, cb_error>>

\* while running: ... recorder.start_recording() up to the open stream
CbStartSession ==
    /\ UNCHANGED tagVars
    /\ UNCHANGED <<svcVars, apiVars>>
    /\ impl = "cb" /\ cb_pc = "loop_head"
    /\ IF ~cb_running
       THEN /\ cb_pc' = "done"
            /\ UNCHANGED <<now, is_recording, audio_buffer, last_voice_time,
                           cb_stream, cb_fed, cb_audio_file, cb_sessions,
                           cb_error>>
       ELSE /\ cb_sessions < MaxSessions
            /\ cb_sessions' = cb_sessions + 1
            /\ audio_buffer' = <<>>
            /\ is_recording' = FALSE
            /\ last_voice_time' = 0
            /\ cb_fed' = <<>>
            /\ now' = 0
            /\ \E opened \in BOOLEAN :
                 IF opened
                 THEN /\ cb_stream' = "active"
                      /\ cb_pc' = "sleeping"
                      /\ cb_error' = FALSE
                      /\ UNCHANGED cb_audio_file
                 ELSE \* sd.InputStream raised: logged, buffer empty -> None
                      /\ cb_stream' = "closed"
                      /\ cb_pc' = "after_rec"
                      /\ cb_error' = TRUE
                      /\ cb_audio_file' = None
    /\ UNCHANGED <<impl, diskVars, cb_running, cb_continuous,
                   cb_after_stop>>

\* start_recording leaves the with block (sd.sleep returned, or the stream
\* raised a device error that line 91 catches and logs: raised), the stream
\* is closed and the buffer is saved
CbFinishSession ==
    /\ UNCHANGED tagVars
    /\ UNCHANGED <<svcVars, apiVars>>
    /\ impl = "cb" /\ cb_pc = "sleeping"
    /\ cb_stream' = "closed"
    /\ is_recording' = is_recording
    /\ \E raised \in BOOLEAN :
         /\ (raised => cb_stream = "active")
         /\ cb_error' = raised
    /\ \E written \in BOOLEAN :
         IF CbSaveWrites(audio_buffer) /\ written
         THEN /\ audio_files' = Put(audio_files, ClipName(audio_files),
                                     ClipContent(audio_buffer))
              /\ cb_audio_file' = ClipName(audio_files)
         ELSE /\ (CbSaveWrites(audio_buffer) \/ written)
              /\ audio_files' = audio_files
              /\ cb_audio_file' = None
    /\ cb_pc' = "after_rec"
    /\ UNCHANGED <<impl, now, notes, engine_failed, cb_running, cb_continuous,
                   audio_buffer, last_voice_time, cb_fed, cb_sessions,
                   cb_after_stop>>

\* record_and_transcribe lines 64-76: what follows start_recording
CbAfterRecording ==
    /\ UNCHANGED tagVars
    /\ UNCHANGED <<svcVars, apiVars>>
    /\ impl = "cb" /\ cb_pc = "after_rec"
    /\ cb_pc' = IF ~cb_running THEN "done"
                ELSE IF cb_audio_file = None
                     THEN (IF cb_continuous THEN "loop_head" ELSE "done")
                     ELSE "transcribing"
    /\ cb_fed' = <<>>
    /\ now' = 0
    /\ UNCHANGED <<impl, diskVars, cb_running, cb_continuous,
                   is_recording, audio_buffer, last_voice_time, cb_stream,
                   cb_audio_file, cb_sessions, cb_after_stop, cb_error>>

\* record_and_transcribe lines 78-97: transcribe_audio runs on the main
\* thread; loaded = FALSE is Transcriber() raising while loading the model,
\* which the outer except turns into return None
CbTranscribe ==
    /\ UNCHANGED tagVars
    /\ UNCHANGED <<svcVars, apiVars>>
    /\ impl = "cb" /\ cb_pc = "transcribing"
    /\ \E loaded \in BOOLEAN, outcome \in EngineOutcomes, written \in BOOLEAN :
         LET data == TranscriberTranscribe(cb_audio_file, audio_files, outcome)
         IN IF ~loaded
            THEN /\ outcome = "text" /\ written
                 /\ cb_pc' = "done"
                 /\ UNCHANGED <<notes, engine_failed>>
            ELSE /\ notes' = TranscriberSave(notes, data, cb_audio_file, written)
                 /\ engine_failed' =
                        FailedAfter(engine_failed, cb_audio_file, outcome)
                 /\ cb_pc' = IF ~cb_continuous \/ ~cb_running
                             THEN "done" ELSE "loop_head"
    /\ UNCHANGED <<impl, now, audio_files, cb_running, cb_continuous,
                   is_recording, audio_buffer, last_voice_time, cb_stream,
                   cb_fed, cb_audio_file, cb_sessions, cb_after_stop,
                   cb_error>>

\* ------------------------------------------------ services/transcriber.py
\* Transcriber.transcribe: result["text"] as <<t>>, None when the engine raises
SvcTranscribe(outcome) ==
    IF outcome = "text" THEN <<"text">>
    ELSE IF outcome = "empty" THEN <<"">>
    ELSE None

\* the truth value Python gives a transcription (None and "" are false)
Truthy(transcription) == transcription # None /\ transcription # <<"">>

\* transcribe_audio of services/transcriber.py: the value it returns;
\* loaded = FALSE is Transcriber() raising, caught by the outer except
SvcTranscribeAudio(loaded, outcome) ==
    IF ~loaded THEN None
    ELSE IF Truthy(SvcTranscribe(outcome)) THEN SvcTranscribe(outcome)
    ELSE None

\* save_transcription, as called by transcribe_audio: the notes afterwards
SvcSaveTranscription(nts, loaded, outcome, clip, written) ==
    IF loaded /\ Truthy(SvcTranscribe(outcome)) /\ written
    THEN Put(nts, clip, SvcTranscribe(outcome)[1])
    ELSE nts

\* ------------------------------------------------ services/recorder.py
Threads == 1 .. MaxStarts

\* samples stream.read returns in one chunk (line 101)
SvcChunk == 1024
\* bytes of one sample: the stream is opened with paInt16
SvcSampleWidth == 2
\* samples per chunk that max_silence_frames is computed from (line 58)
SvcSilenceChunk == 1024

\* samples of the data process_audio hands to vad.is_speech: the chunk as it
\* was read, when it has the 2048 bytes of a full chunk (lines 105-106)
SvcVadSamples == (SvcChunk * SvcSampleWidth * CHANNELS) \div SvcSampleWidth

\* int(SILENCE_THRESHOLD * (SAMPLE_RATE / 1024)), the model's time unit being
\* the period of one 1024-sample chunk
max_silence_frames == SILENCE_THRESHOLD

\* chunks one session reads at most: enough for the silence count to run out
\* after a chunk of speech
SvcMaxFrames == max_silence_frames + 1

\* a thread that is not running: no locals, no recorder object.  ended_by
\* and saved are history of the current session, not program variables: what
\* made the session end ("silence", "read_error", "vad_error", "flag") and
\* the clip stop_recording wrote for it.  They are kept until the owner has
\* acted on the session's result (saved until the test of line 226,
\* ended_by until transcribe_audio has returned or was skipped).
DeadThread ==
    [pc |-> "dead", continuous |-> FALSE, recording |-> FALSE,
     frames |-> <<>>, silence_frames |-> 0, stream |-> "none",
     audio_file |-> None, transcription |-> None,
     engine |-> "none", after_stop |-> 0, saw_clients |-> FALSE,
     ended_by |-> "none", saved |-> None]

StopOutcomes == {"ok", "stream_raises", "write_raises"}

\* AudioRecorder.stop_recording: a non-empty frame list is written to a file
SvcSaveWrites(frames) == Len(frames) > 0

\* AudioRecorder.stop_recording on recorder r with the audio directory
\* files; o says which call raises, if any.  Yields the recorder afterwards,
\* the returned file name and whether a file was written.
stop_recording(r, o, files) ==
    IF ~r.recording
    THEN [r |-> r, ret |-> None, write |-> FALSE]
    ELSE IF r.stream = "open" /\ o = "stream_raises"
    THEN [r |-> r, ret |-> None, write |-> FALSE]
    ELSE LET r2 == [r EXCEPT !.stream = "none", !.recording = FALSE]
         IN IF SvcSaveWrites(r.frames) /\ o # "write_raises"
            THEN [r |-> r2, ret |-> ClipName(files), write |-> TRUE]
            ELSE [r |-> r2, ret |-> None, write |-> FALSE]

\* the audio directory after a stop_recording call with result res
FilesAfterStop(files, res, r) ==
    IF res.write THEN Put(files, res.ret, ClipContent(r.frames)) ELSE files

\* signal_handler of services/recorder.py
SvcSignal ==
    /\ UNCHANGED tagVars
    /\ UNCHANGED <<cbVars, apiVars>>
    /\ impl = "svc" /\ svc_running
    /\ svc_running' = FALSE
    /\ rt' = [t \in Threads |-> [rt[t] EXCEPT !.after_stop = 0]]
    /\ UNCHANGED <<impl, now, diskVars, svc_recorder_process,
                   svc_recorder_status, svc_loop, svc_resp,
                   svc_spawned, svc_sessions>>

\* record_and_transcribe line 210-213: while running, start_recording
SvcLoopHead(t) ==
    /\ rt[t].pc = "loop_head"
    /\ IF ~svc_running
       THEN /\ rt' = [rt EXCEPT ![t].pc = "cleanup"]
            /\ UNCHANGED svc_sessions
       ELSE /\ svc_sessions < MaxSessions
            /\ svc_sessions' = svc_sessions + 1
            /\ \E opened \in BOOLEAN :
                 rt' = [rt EXCEPT ![t] =
                          IF opened
                          THEN [@ EXCEPT !.pc = "capture", !.stream = "open",
                                         !.frames = <<>>, !.silence_frames = 0,
                                         !.recording = TRUE, !.engine = "none",
                                         !.ended_by = "none", !.saved = None]
                          ELSE [@ EXCEPT !.pc = "cleanup"]]
    /\ UNCHANGED <<now, diskVars, svc_running, svc_recorder_process,
                   svc_recorder_status, svc_loop, svc_resp,
                   svc_spawned>>

\* line 218: while recorder.recording and running
SvcLoopTest(t) ==
    /\ rt[t].pc = "capture"
    /\ rt' = [rt EXCEPT ![t].pc =
                IF rt[t].recording /\ svc_running THEN "process" ELSE "stop"]
    /\ UNCHANGED <<now, diskVars, svc_running, svc_recorder_process,
                   svc_recorder_status, svc_loop, svc_resp,
                   svc_spawned, svc_sessions>>

\* AudioRecorder.process_audio (line 219), one chunk; read = FALSE is
\* stream.read raising
SvcProcessAudio(t) ==
    /\ rt[t].pc = "process"
    /\ \E read \in BOOLEAN, frame \in FrameKinds, o \in StopOutcomes :
         LET r0  == rt[t]
             cnt == IF svc_running THEN 0 ELSE r0.after_stop + 1
             sil == IF frame = "silence" THEN r0.silence_frames + 1 ELSE 0
             r1  == [r0 EXCEPT !.frames = Append(@, frame),
                               !.after_stop = cnt]
             r2  == [r1 EXCEPT !.silence_frames = sil]
             \* the recorder when stop_recording is entered, if it is
             rs  == IF ~read THEN r0 ELSE IF frame = "bad" THEN r1 ELSE r2
             stops == ~read \/ frame = "bad" \/ sil >= max_silence_frames
             res == stop_recording(rs, o, audio_files)
             why == IF ~read THEN "read_error"
                    ELSE IF frame = "bad" THEN "vad_error" ELSE "silence"
         IN /\ read => Len(r0.frames) < SvcMaxFrames
            /\ ~read => frame = "silence"
            /\ ~stops => o = "ok"
            /\ IF stops
               THEN /\ rt' = [rt EXCEPT ![t] =
                              [res.r EXCEPT !.pc = "stop", !.ended_by = why,
                                            !.saved = res.ret]]
                    /\ audio_files' = FilesAfterStop(audio_files, res, rs)
               ELSE /\ rt' = [rt EXCEPT ![t] = [r2 EXCEPT !.pc = "capture"]]
                    /\ audio_files' = audio_files
    /\ UNCHANGED <<now, notes, engine_failed, svc_running,
                   svc_recorder_process, svc_recorder_status, svc_loop, svc_resp, svc_spawned, svc_sessions>>

\* line 224: audio_file = recorder.stop_recording()
SvcStop(t) ==
    /\ rt[t].pc = "stop"
    /\ \E o \in StopOutcomes :
         LET res == stop_recording(rt[t], o, audio_files)
         IN /\ (~rt[t].recording => o = "ok")
            /\ rt' = [rt EXCEPT ![t] =
                      [res.r EXCEPT !.pc = "after_stop",
                                    !.audio_file = res.ret,
                                    !.ended_by =
                                        IF @ = "none" THEN "flag" ELSE @,
                                    !.saved =
                                        IF res.write THEN res.ret ELSE @]]
            /\ audio_files' = FilesAfterStop(audio_files, res, rt[t])
    /\ UNCHANGED <<now, notes, engine_failed, svc_running,
                   svc_recorder_process, svc_recorder_status, svc_loop, svc_resp, svc_spawned, svc_sessions>>

\* lines 238-239 and 210: after a session the loop goes on only if continuous
AfterSession(r) == IF r.continuous THEN "loop_head" ELSE "cleanup"

\* line 226: if audio_file, transcribe_audio is entered on this thread
SvcAfterStop(t) ==
    /\ rt[t].pc = "after_stop"
    /\ rt' = [rt EXCEPT ![t] =
                IF rt[t].audio_file # None
                THEN [@ EXCEPT !.pc = "transcribe", !.saved = None]
                ELSE [@ EXCEPT !.pc = AfterSession(rt[t]),
                               !.ended_by = "none", !.saved = None]]
    /\ UNCHANGED <<now, diskVars, svc_running, svc_recorder_process,
                   svc_recorder_status, svc_loop, svc_resp,
                   svc_spawned, svc_sessions>>

\* lines 230-239: transcribe_audio returns; an engine or model-loading
\* exception is caught inside it and answered with None
SvcTranscribeStep(t) ==
    /\ rt[t].pc = "transcribe"
    /\ \E outcome \in EngineOutcomes :
         /\ rt' = [rt EXCEPT ![t].pc = AfterSession(rt[t]),
                             ![t].transcription =
                                 SvcTranscribeAudio(TRUE, outcome),
                             ![t].engine = outcome,
                             ![t].ended_by = "none"]
         /\ notes' = SvcSaveTranscription(notes, TRUE, outcome,
                                          rt[t].audio_file, TRUE)
    /\ UNCHANGED <<now, audio_files, engine_failed, svc_running,
                   svc_recorder_process, svc_recorder_status, svc_loop, svc_resp, svc_spawned, svc_sessions>>

\* finally: recorder.cleanup(); closed = FALSE is stream.close() raising
SvcCleanup(t) ==
    /\ rt[t].pc = "cleanup"
    /\ \E closed \in BOOLEAN :
         /\ (rt[t].stream # "open" => closed)
         /\ rt' = [rt EXCEPT ![t].pc = "report",
                             ![t].stream =
                                 IF @ = "open" /\ closed THEN "closed" ELSE @]
    /\ UNCHANGED <<now, diskVars, svc_running, svc_recorder_process,
                   svc_recorder_status, svc_loop, svc_resp,
                   svc_spawned, svc_sessions>>

\* ------------------------------------------------ api/recorder.py
\* broadcast_status_update_sync: with clients connected it asks asyncio for
\* the current event loop, which a recorder thread does not have
BroadcastRaises(clients, on_loop_thread) == clients /\ ~on_loop_thread

\* the status run_recorder_thread publishes for the result of
\* record_and_transcribe (lines 100-112)
ReportStatus(audio_file, transcription) ==
    IF audio_file # None
    THEN (IF Truthy(transcription) THEN "completed"
          ELSE "completed_no_transcription")
    ELSE "error"

\* start_recorder with the guard of line 244 left out
SvcNeverRunning(handle, threads) == FALSE

\* the guard of start_recorder (line 244)
SvcAlreadyRunning(handle, threads) ==
    handle # 0 /\ threads[handle].pc # "dead"

\* run_recorder_thread lines 89-97: publish "recording", then enter
\* record_and_transcribe; an exception of the publication is answered by
\* publishing "error", which raises again, and leaves through finally.
\* Clients of GET /status/stream come and go at any time: clients says
\* whether some are connected at this moment.
SvcThreadStart(t) ==
    /\ rt[t].pc = "t_start"
    /\ \E clients \in BOOLEAN :
         IF BroadcastRaises(clients, FALSE)
         THEN /\ svc_recorder_status' = "error"
              /\ rt' = [rt EXCEPT ![t].pc = "finally",
                                  ![t].saw_clients = clients]
         ELSE /\ svc_recorder_status' = "recording"
              /\ rt' = [rt EXCEPT ![t].pc = "loop_head",
                                  ![t].saw_clients = clients]
    /\ UNCHANGED <<now, diskVars, svc_running, svc_recorder_process,
                   svc_loop, svc_resp, svc_spawned, svc_sessions>>

\* run_recorder_thread lines 99-115: publish the outcome
SvcReport(t) ==
    /\ rt[t].pc = "report"
    /\ \E clients \in BOOLEAN :
         /\ svc_recorder_status' =
               IF BroadcastRaises(clients, FALSE) THEN "error"
               ELSE ReportStatus(rt[t].audio_file, rt[t].transcription)
         /\ rt' = [rt EXCEPT ![t].pc = "finally",
                             ![t].saw_clients = clients]
    /\ UNCHANGED <<now, diskVars, svc_running, svc_recorder_process,
                   svc_loop, svc_resp, svc_spawned, svc_sessions>>

\* run_recorder_thread lines 116-118: finally recorder_process = None
SvcFinally(t) ==
    /\ rt[t].pc = "finally"
    /\ svc_recorder_process' = 0
    /\ rt' = [rt EXCEPT ![t] = [DeadThread EXCEPT !.pc = "exiting"]]
    /\ UNCHANGED <<now, diskVars, svc_running, svc_recorder_status,
                   svc_loop, svc_resp, svc_spawned,
                   svc_sessions>>

\* the thread function has returned: is_alive() turns False
SvcExit(t) ==
    /\ rt[t].pc = "exiting"
    /\ rt' = [rt EXCEPT ![t] = DeadThread]
    /\ UNCHANGED <<now, diskVars, svc_running, svc_recorder_process,
                   svc_recorder_status, svc_loop, svc_resp,
                   svc_spawned, svc_sessions>>

\* one step of some recorder thread
SvcThread ==
    /\ UNCHANGED tagVars
    /\ UNCHANGED <<impl, cbVars, apiVars>>
    /\ impl = "svc"
    /\ \E t \in Threads :
         \/ SvcThreadStart(t)
         \/ SvcLoopHead(t)
         \/ SvcLoopTest(t)
         \/ SvcProcessAudio(t)
         \/ SvcStop(t)
         \/ SvcAfterStop(t)
         \/ SvcTranscribeStep(t)
         \/ SvcCleanup(t)
         \/ SvcReport(t)
         \/ SvcFinally(t)
         \/ SvcExit(t)

\* POST /start (start_recorder) up to recorder_thread.start()
SvcStartRequest ==
    /\ UNCHANGED tagVars
    /\ UNCHANGED <<impl, now, diskVars, cbVars, apiVars>>
    /\ impl = "svc" /\ svc_loop = "idle"
    /\ IF SvcAlreadyRunning(svc_recorder_process, rt)
       THEN /\ svc_resp' = "error"
            /\ UNCHANGED <<svc_loop, svc_spawned, rt>>
       ELSE /\ svc_spawned < MaxStarts
            /\ svc_spawned' = svc_spawned + 1
            /\ \E continuous \in BOOLEAN :
                 rt' = [rt EXCEPT ![svc_spawned + 1] =
                          [DeadThread EXCEPT !.pc = "t_start",
                                             !.continuous = continuous]]
            /\ svc_loop' = "start_assign"
            /\ svc_resp' = "none"
    /\ UNCHANGED <<svc_running, svc_recorder_process, svc_recorder_status,
                   svc_sessions>>

\* start_recorder lines 262-268: store the thread, answer success
SvcStartAssign ==
    /\ UNCHANGED tagVars
    /\ UNCHANGED <<impl, now, diskVars, cbVars, apiVars>>
    /\ impl = "svc" /\ svc_loop = "start_assign"
    /\ svc_recorder_process' = svc_spawned
    /\ svc_resp' = "success"
    /\ svc_loop' = "idle"
    /\ UNCHANGED <<svc_running, svc_recorder_status, svc_spawned, svc_sessions, rt>>

\* POST /stop (stop_recorder): publishes "stopping"; the assignment to
\* backend.services.recorder.running then raises NameError, because the
\* module never binds the name backend, and the request fails
SvcStopRequest ==
    /\ UNCHANGED tagVars
    /\ UNCHANGED <<impl, now, diskVars, cbVars, apiVars>>
    /\ impl = "svc" /\ svc_loop = "idle"
    /\ svc_recorder_status' = "stopping"
    /\ svc_resp' = "exception"
    /\ UNCHANGED <<svc_running, svc_recorder_process, svc_loop, svc_spawned, svc_sessions, rt>>

\* ------------------------------------------------ recorder_api.py
Procs == 1 .. MaxStarts
Jobs == 1 .. MaxJobs

\* the clip names of S in ascending order
RECURSIVE SortedClips(_)
SortedClips(S) ==
    IF S = {} THEN <<>>
    ELSE LET m == CHOOSE x \in S : \A y \in S : x[1] <= y[1]
         IN <<m>> \o SortedClips(S \ {m})

\* transcribe_untranscribed_files lines 328-339: the audio files that have
\* no note of the same base name
to_transcribe(files, nts) == SortedClips(DOMAIN files \ DOMAIN nts)

\* the guard of start_recorder (line 74): a process is stored and poll()
\* says it has not exited
ApiAlreadyRunning(handle, ps) == handle # 0 /\ ps[handle] = "alive"

\* the guard of stop_recorder (line 118)
ApiNotRunning(handle, ps) == handle = 0 \/ ps[handle] # "alive"

IdleMonitor == [pc |-> "none", reads |-> 0]
IdleJob == [pc |-> "none", todo |-> <<>>, i |-> 0]

\* the programs in which transcribe_untranscribed_files runs
BulkImpls == {"bulk", "read"}

\* start_recorder; spawned = FALSE is subprocess.Popen raising
ApiStartRequest ==
    /\ UNCHANGED tagVars
    /\ UNCHANGED snap
    /\ UNCHANGED <<impl, now, diskVars, cbVars, svcVars>>
    /\ impl = "api"
    /\ IF ApiAlreadyRunning(api_recorder_process, procs)
       THEN /\ api_resp' = "error"
            /\ UNCHANGED <<api_recorder_process, procs, api_spawned,
                           recorder_status, mon>>
       ELSE \E spawned \in BOOLEAN :
              IF ~spawned
              THEN /\ api_resp' = "error"
                   /\ UNCHANGED <<api_recorder_process, procs, api_spawned,
                                  recorder_status, mon>>
              ELSE /\ api_spawned < MaxStarts
                   /\ api_spawned' = api_spawned + 1
                   /\ procs' = [procs EXCEPT ![api_spawned + 1] = "alive"]
                   /\ api_recorder_process' = api_spawned + 1
                   /\ recorder_status' =
                        [recorder_status EXCEPT !.running = TRUE,
                                                !.status = "recording"]
                   /\ mon' = [mon EXCEPT ![api_spawned + 1].pc = "start"]
                   /\ api_resp' = "success"
    /\ UNCHANGED jobs

\* stop_recorder; in_time = FALSE is wait(timeout=5) raising TimeoutExpired.
\* current_file is never set by the monitor for the lines recorder.py
\* prints, so no transcription is started here.
ApiStopRequest ==
    /\ UNCHANGED tagVars
    /\ UNCHANGED snap
    /\ UNCHANGED <<impl, now, diskVars, cbVars, svcVars>>
    /\ impl = "api"
    /\ IF ApiNotRunning(api_recorder_process, procs)
       THEN /\ api_resp' = "error"
            /\ UNCHANGED <<api_recorder_process, procs, recorder_status>>
       ELSE \E in_time \in BOOLEAN :
              IF in_time
              THEN /\ procs' = [procs EXCEPT ![api_recorder_process] = "exited"]
                   /\ api_recorder_process' = 0
                   /\ recorder_status' =
                        [recorder_status EXCEPT !.running = FALSE,
                                                !.status = "stopped"]
                   /\ api_resp' = "success"
              ELSE /\ api_resp' = "error"
                   /\ UNCHANGED <<api_recorder_process, procs, recorder_status>>
    /\ UNCHANGED <<api_spawned, mon, jobs>>

\* the recorder.py subprocess ends by itself
ApiProcExit ==
    /\ UNCHANGED tagVars
    /\ UNCHANGED snap
    /\ UNCHANGED <<impl, now, diskVars, cbVars, svcVars>>
    /\ impl = "api"
    /\ \E p \in Procs :
         /\ procs[p] = "alive"
         /\ procs' = [procs EXCEPT ![p] = "exited"]
    /\ UNCHANGED <<api_recorder_process, api_spawned, recorder_status, mon,
                   jobs, api_resp>>

\* the recorder.py subprocess saves a clip and, unless it is stopped or
\* fails to load the model first, transcribes it (recorder.py lines 62-80)
ApiProcRecords ==
    /\ UNCHANGED tagVars
    /\ UNCHANGED snap
    /\ UNCHANGED <<impl, now, cbVars, svcVars>>
    /\ impl \in {"api"} \cup BulkImpls
    /\ \E p \in Procs, transcribed \in BOOLEAN, outcome \in EngineOutcomes :
         LET clip == ClipName(audio_files)
             files == Put(audio_files, clip, "audio")
         IN /\ procs[p] = "alive"
            /\ Cardinality(DOMAIN audio_files) < MaxClips
            /\ (~transcribed => outcome = "text")
            /\ audio_files' = files
            /\ notes' = IF transcribed
                        THEN TranscriberSave(notes,
                                 TranscriberTranscribe(clip, files, outcome),
                                 clip, TRUE)
                        ELSE notes
            /\ engine_failed' = IF transcribed
                                THEN FailedAfter(engine_failed, clip, outcome)
                                ELSE engine_failed
    /\ UNCHANGED apiVars

\* _monitor_recorder_output.  The lines recorder.py prints are neither JSON
\* nor "Recording to file" / "Audio level:" reports, so reading one changes
\* no status field.
ApiMonitor ==
    /\ UNCHANGED tagVars
    /\ UNCHANGED snap
    /\ UNCHANGED <<impl, now, diskVars, cbVars, svcVars>>
    /\ impl = "api"
    /\ \E m \in Procs :
         \/ \* lines 185-189: take the stdout of the process stored now
            /\ mon[m].pc = "start"
            /\ mon' = [mon EXCEPT ![m] =
                         IF api_recorder_process = 0
                         THEN [pc |-> "done", reads |-> 0]
                         ELSE [pc |-> "loop", reads |-> api_recorder_process]]
            /\ UNCHANGED recorder_status
         \/ \* a line is read; line 230 polls the process stored now, which
            \* raises AttributeError when recorder_process is None
            /\ mon[m].pc = "loop"
            /\ mon' = [mon EXCEPT ![m].pc =
                         IF ApiNotRunning(api_recorder_process, procs)
                         THEN "finally" ELSE "loop"]
            /\ UNCHANGED recorder_status
         \/ \* end of file on the stdout being read
            /\ mon[m].pc = "loop"
            /\ procs[mon[m].reads] = "exited"
            /\ mon' = [mon EXCEPT ![m].pc = "finally"]
            /\ UNCHANGED recorder_status
         \/ \* lines 234-239
            /\ mon[m].pc = "finally"
            /\ mon' = [mon EXCEPT ![m].pc = "done"]
            /\ recorder_status' =
                 IF recorder_status.running
                 THEN [recorder_status EXCEPT !.running = FALSE,
                                              !.status = "stopped"]
                 ELSE recorder_status
    /\ UNCHANGED <<api_recorder_process, procs, api_spawned, jobs, api_resp>>

\* POST /api/recorder/transcribe: transcribe_untranscribed_files is queued
\* as a background task
ApiTranscribeAllRequest ==
    /\ UNCHANGED tagVars
    /\ UNCHANGED snap
    /\ UNCHANGED <<impl, now, diskVars, cbVars, svcVars>>
    /\ impl \in BulkImpls
    /\ \E j \in Jobs :
         /\ jobs[j].pc = "none"
         /\ \A k \in Jobs : k < j => jobs[k].pc # "none"
         /\ (impl = "read" => \A k \in Jobs : jobs[k].pc = "none")
         /\ jobs' = [jobs EXCEPT ![j].pc = "begin"]
    /\ api_resp' = "success"
    /\ UNCHANGED <<api_recorder_process, procs, api_spawned, recorder_status,
                   mon>>

\* transcribe_untranscribed_files, run by a worker thread
ApiBulkTranscribe ==
    /\ UNCHANGED tagVars
    /\ UNCHANGED snap
    /\ UNCHANGED <<impl, now, cbVars, svcVars>>
    /\ impl \in BulkImpls
    /\ \E j \in Jobs :
         \/ \* lines 324-347
            /\ jobs[j].pc = "begin"
            /\ jobs' = [jobs EXCEPT ![j] =
                          [pc |-> "files", i |-> 1,
                           todo |-> to_transcribe(audio_files, notes)]]
            /\ recorder_status' =
                 [recorder_status EXCEPT
                    !.transcribing = TRUE,
                    !.total_files = Len(to_transcribe(audio_files, notes)),
                    !.processed_files = 0,
                    !.progress_file = None]
            /\ UNCHANGED diskVars
         \/ \* lines 351-374, one file; loaded = FALSE is Transcriber()
            \* raising, which is logged and skips the progress update
            /\ jobs[j].pc = "files"
            /\ jobs[j].i <= Len(jobs[j].todo)
            /\ \E loaded \in BOOLEAN, outcome \in EngineOutcomes :
                 LET clip == jobs[j].todo[jobs[j].i]
                     data == TranscriberTranscribe(clip, audio_files, outcome)
                 IN /\ (~loaded => outcome = "text")
                    /\ notes' = IF loaded
                                THEN TranscriberSave(notes, data, clip, TRUE)
                                ELSE notes
                    /\ engine_failed' =
                         IF loaded
                         THEN FailedAfter(engine_failed, clip, outcome)
                         ELSE engine_failed
                    /\ recorder_status' =
                         [recorder_status EXCEPT
                            !.progress_file = clip,
                            !.processed_files =
                                IF loaded THEN jobs[j].i ELSE @]
            /\ jobs' = [jobs EXCEPT ![j].i = @ + 1]
            /\ UNCHANGED audio_files
         \/ \* lines 376 and 382-389
            /\ jobs[j].pc = "files"
            /\ jobs[j].i > Len(jobs[j].todo)
            /\ jobs' = [jobs EXCEPT ![j] = IdleJob]
            /\ recorder_status' =
                 [recorder_status EXCEPT !.transcribing = FALSE,
                                         !.progress_file = None]
            /\ UNCHANGED diskVars
    /\ UNCHANGED <<api_recorder_process, procs, api_spawned, mon, api_resp>>

\* the nested dict recorder_status["transcribe_progress"]
Progress(rs) ==
    [total_files |-> rs.total_files, processed_files |-> rs.processed_files,
     current_file |-> rs.progress_file]

\* get_status: recorder_status.copy() copies the top-level entries; the
\* entry transcribe_progress of the copy is the same dict object as the one
\* in recorder_status, which progress = "shared" stands for.  then is
\* history: the content of that dict when the copy was made.
get_status(rs) ==
    [running |-> rs.running, status |-> rs.status,
     transcribing |-> rs.transcribing, progress |-> "shared",
     then |-> Progress(rs)]

\* what a reader finds under transcribe_progress in a value get_status
\* returned, rs being recorder_status as it is now
SnapProgress(s, rs) == IF s.progress = "shared" THEN Progress(rs) ELSE s.then

\* GET /api/status and the status stream: a reader calls get_status and
\* keeps the returned dict
ApiGetStatus ==
    /\ UNCHANGED tagVars
    /\ UNCHANGED <<impl, now, diskVars, cbVars, svcVars>>
    /\ impl = "read"
    /\ snap' = get_status(recorder_status)
    /\ UNCHANGED <<api_recorder_process, procs, api_spawned, recorder_status,
                   mon, jobs, api_resp>>

\* ------------------------------------------------ tagging.py
\* A character is a one-letter string, a word or a text a sequence of
\* characters.  Russian letters are written by Latin ones, one for one
\* ("plan" for the Russian word of four letters), so that lengths and
\* substrings are those of the source text.  The model's alphabet has the
\* capital "P" and the comma besides small letters, digits and the space.

\* str.lower on the alphabet of the model
Lower(c) == IF c = "P" THEN "p" ELSE c

Digits == {"0", "2", "4"}

\* the characters the pattern [^\w\s-] of clean_text keeps
Kept(c) == c # ","

\* the function f on 1 .. n, written out as a sequence
AsSeq(f, n) == SubSeq(f, 1, n)

Reverse(s) ==
    LET n == Len(s) IN AsSeq([i \in 1 .. n |-> s[n + 1 - i]], n)

\* re.sub(r'\s+', ' ', s): runs of spaces become one space, that is, a
\* space that follows a space is dropped
Collapse(s) ==
    LET n == Len(s)
        pairs == AsSeq([i \in 1 .. n |->
                          <<s[i], IF i > 1 THEN s[i - 1] ELSE "">>], n)
        kept == SelectSeq(pairs, LAMBDA p : ~(p[1] = " " /\ p[2] = " "))
    IN AsSeq([i \in 1 .. Len(kept) |-> kept[i][1]], Len(kept))

\* str.strip
LStrip(s) ==
    LET solid == {i \in 1 .. Len(s) : s[i] # " "} \cup {Len(s) + 1}
        k == CHOOSE i \in solid : \A j \in solid : i <= j
    IN SubSeq(s, k, Len(s))
Strip(s) == Reverse(LStrip(Reverse(LStrip(s))))

\* clean_text: lower case, special characters to spaces, runs of spaces to
\* one space, strip
clean_text(text) ==
    LET n == Len(text)
        low == AsSeq([i \in 1 .. n |-> Lower(text[i])], n)
        sub == AsSeq([i \in 1 .. n |->
                        IF Kept(low[i]) THEN low[i] ELSE " "], n)
    IN Strip(Collapse(sub))

\* str.split(): the maximal runs of characters other than the space
RECURSIVE Split(_)
Split(s) ==
    IF s = <<>> THEN <<>>
    ELSE LET ends == {i \in 1 .. Len(s) : s[i] = " "} \cup {Len(s) + 1}
             k == CHOOSE i \in ends : \A j \in ends : i <= j
         IN (IF k > 1 THEN <<SubSeq(s, 1, k - 1)>> ELSE <<>>)
               \o Split(SubSeq(s, k + 1, Len(s)))

\* ' '.join(words)
RECURSIVE Join(_)
Join(words) ==
    IF words = <<>> THEN <<>>
    ELSE IF Len(words) = 1 THEN words[1]
    ELSE words[1] \o <<" ">> \o Join(Tail(words))

\* the Python test sub in s on strings
Contains(sub, s) ==
    \E i \in 1 .. Len(s) - Len(sub) + 1 : SubSeq(s, i, i + Len(sub) - 1) = sub

\* str.endswith
EndsWith(w, suffix) ==
    Len(w) >= Len(suffix)
       /\ SubSeq(w, Len(w) - Len(suffix) + 1, Len(w)) = suffix

\* the elements of a list as a set
Range(s) == {s[i] : i \in 1 .. Len(s)}

\* the keys of a dict filled by going through s: the elements of s in the
\* order of their first occurrence
Keys(s) ==
    LET firsts == {i \in 1 .. Len(s) : \A j \in 1 .. i - 1 : s[j] # s[i]}
        nth(n) == CHOOSE i \in firsts :
                     Cardinality({j \in firsts : j < i}) = n - 1
    IN [n \in 1 .. Cardinality(firsts) |-> s[nth(n)]]

\* how often x occurs in the list s
Count(x, s) == Cardinality({i \in 1 .. Len(s) : s[i] = x})

\* a sort by count that puts the later of two items of equal count first
RECURSIVE SortedByFreqUnstable(_, _)
SortedByFreqUnstable(items, s) ==
    IF items = <<>> THEN <<>>
    ELSE LET best == {i \in 1 .. Len(items) :
                        \A j \in 1 .. Len(items) :
                           Count(items[j], s) <= Count(items[i], s)}
             k == CHOOSE i \in best : \A j \in best : j <= i
         IN <<items[k]>>
              \o SortedByFreqUnstable(SubSeq(items, 1, k - 1)
                                \o SubSeq(items, k + 1, Len(items)), s)

\* sorted(freq.items(), key=lambda item: item[1], reverse=True) for the
\* dict freq counting the elements of s, items being its items in iteration
\* order: Python's sort is stable, so equal counts keep the order of items
RECURSIVE SortedByFreq(_, _)
SortedByFreq(items, s) ==
    IF items = <<>> THEN <<>>
    ELSE LET best == {i \in 1 .. Len(items) :
                        \A j \in 1 .. Len(items) :
                           Count(items[j], s) <= Count(items[i], s)}
             k == CHOOSE i \in best : \A j \in best : i <= j
         IN <<items[k]>>
              \o SortedByFreq(SubSeq(items, 1, k - 1)
                                \o SubSeq(items, k + 1, Len(items)), s)

\* the first n elements of s (s[:n])
Take(s, n) == SubSeq(s, 1, IF Len(s) < n THEN Len(s) ELSE n)

\* the order in which a dict is iterated if it were that of a set of strings
IterHashed(keys, h) == IF h THEN Reverse(keys) ELSE keys

\* the order in which a dict is iterated: that of insertion, whatever the
\* string hash seed h of the interpreter is
IterDict(keys, h) == keys

\* list(S) for a set S of strings whose members, in the order they were
\* added, are keys: the order depends on the hash seed h
IterSet(keys, h) == IF h THEN Reverse(keys) ELSE keys

\* STOPWORDS (lines 56-72): "eto", "kak", "da"
STOPWORDS ==
    {<<"e", "t", "o">>, <<"k", "a", "k">>, <<"d", "a">>}

\* CATEGORIES (lines 75-88), in the order of the dict, with part of the
\* trigger terms of each category
CATEGORIES ==
    <<[name |-> "biznes",
       keywords |-> << <<"p", "r", "o", "e", "k", "t">> >>],
      [name |-> "tehnicheskoe",
       keywords |-> << <<"k", "o", "d">>, <<"b", "a", "g">> >>],
      [name |-> "lichnoe",
       keywords |-> << <<"d", "o", "m">> >>],
      [name |-> "planirovanie",
       keywords |-> << <<"p", "l", "a", "n">>,
                       <<"g", "r", "a", "f", "i", "k">> >>],
      [name |-> "otchet",
       keywords |-> << <<"s", "t", "a", "t", "u", "s">>,
                       <<"o", "t", "c", "e", "t">> >>]>>

\* PURPOSE_INDICATORS (lines 91-106), in the order of the dict, with part
\* of the indicators of two purposes
PURPOSE_INDICATORS ==
    <<[name |-> "planirovanie",
       indicators |-> << <<"p", "l", "a", "n">>,
                         <<"g", "r", "a", "f", "i", "k">> >>],
      [name |-> "informirovanie",
       indicators |-> << <<"o", "t", "c", "e", "t">>,
                         <<"s", "t", "a", "t", "u", "s">> >>]>>

\* part of the suffix list of normalize_word, in its order
suffixes == << <<"a", "m", "i">>, <<"o", "g", "o">>, <<"a", "l">> >>

\* extract_keywords(text, max_tags=10, min_word_length=4, ...)
max_tags == 10
min_word_length == 4
\* the length a component of a key phrase must have (line 240)
min_phrase_word_length == 3
\* extract_keyphrases(..., min_phrase_words=2, max_phrase_words=3)
max_phrases_default == 5
min_phrase_words == 2
max_phrase_words == 3
\* generate_tags(text, max_keywords=7, max_phrases=3, classify=True)
max_keywords == 7
max_phrases == 3
\* generate_tags: a text of fewer characters gets the empty result
MIN_TEXT_LENGTH == 10
\* generate_tags: classification needs a text of more characters
CLASSIFY_MIN_LENGTH == 100
\* determine_conversation_purpose: the score the best purpose needs
MIN_PURPOSE_SCORE == 2

\* normalize_word: the first suffix of the list that the word ends with is
\* cut off if more than three letters remain
normalize_word(word) ==
    LET fits == {i \in 1 .. Len(suffixes) :
                    EndsWith(word, suffixes[i])
                       /\ Len(word) - Len(suffixes[i]) > 3}
    IN IF Len(word) > 4 /\ fits # {}
       THEN LET k == CHOOSE i \in fits : \A j \in fits : i <= j
            IN SubSeq(word, 1, Len(word) - Len(suffixes[k]))
       ELSE word

\* normalize_word_improved: the lemma of the morphological analyzer or, if
\* that is not installed, normalize_word.  The words of the model are
\* dictionary forms, except "planami", whose lemma "plan" is also what
\* normalize_word makes of it.
normalize_word_improved(word) == normalize_word(word)

\* str.isdigit
IsDigit(token) ==
    token # <<>> /\ \A i \in 1 .. Len(token) : token[i] \in Digits

\* the tokens extract_keywords keeps, normalized (lines 178-187)
RECURSIVE FilteredTokens(_)
FilteredTokens(tokens) ==
    IF tokens = <<>> THEN <<>>
    ELSE LET token == tokens[1]
             normal_form == normalize_word_improved(token)
         IN (IF /\ Len(token) >= min_word_length
                /\ token \notin STOPWORDS
                /\ ~IsDigit(token)
                /\ ~(\A i \in 1 .. Len(token) : token[i] = "-")
                /\ Len(normal_form) >= min_word_length
             THEN <<normal_form>> ELSE <<>>)
               \o FilteredTokens(Tail(tokens))

\* extract_keywords with min_frequency = 1
extract_keywords(text, limit, h) ==
    LET filtered_tokens == FilteredTokens(Split(clean_text(text)))
        sorted_words ==
            SortedByFreq(IterDict(Keys(filtered_tokens), h), filtered_tokens)
    IN Keys(Take(sorted_words, limit))

\* the n-grams of tokens whose words all count, joined by spaces, in the
\* order of their start (lines 235-241)
NGrams(tokens, n) ==
    LET starts == {i \in 1 .. Len(tokens) - n + 1 :
                      \A j \in i .. i + n - 1 :
                         /\ Len(tokens[j]) >= min_phrase_word_length
                         /\ tokens[j] \notin STOPWORDS}
        nth(m) == CHOOSE i \in starts :
                     Cardinality({j \in starts : j < i}) = m - 1
    IN [m \in 1 .. Cardinality(starts) |->
           Join(SubSeq(tokens, nth(m), nth(m) + n - 1))]

\* extract_keyphrases
extract_keyphrases(text, limit, h) ==
    LET tokens == Split(clean_text(text))
        phrases == NGrams(tokens, min_phrase_words)
                      \o NGrams(tokens, max_phrase_words)
        sorted_phrases == SortedByFreq(IterDict(Keys(phrases), h), phrases)
    IN Take(sorted_phrases, limit)

\* the names of the categories of table that have a trigger term in clean,
\* in the order of the table
RECURSIVE Matched(_, _)
Matched(table, clean) ==
    IF table = <<>> THEN <<>>
    ELSE (IF \E i \in 1 .. Len(table[1].keywords) :
                 Contains(table[1].keywords[i], clean)
          THEN <<table[1].name>> ELSE <<>>)
            \o Matched(Tail(table), clean)

\* classify_conversation: list(matched_categories) of a set
classify_conversation(text, h) ==
    IterSet(Matched(CATEGORIES, clean_text(text)), h)

\* scores[purpose] of determine_conversation_purpose: the indicators of the
\* purpose that occur in clean
PurposeScore(purpose, clean) ==
    Cardinality({i \in 1 .. Len(purpose.indicators) :
                    Contains(purpose.indicators[i], clean)})

\* sum(scores.values()) (line 307)
RECURSIVE SumFrom(_, _)
SumFrom(table, clean) ==
    IF table = <<>> THEN 0
    ELSE PurposeScore(table[1], clean) + SumFrom(Tail(table), clean)
SumScores(clean) == SumFrom(PURPOSE_INDICATORS, clean)

\* (score / total_score) * 100, or 0 when total_score is 0 (lines 308-311):
\* the per cent value as the fraction <<numerator, denominator>>
Percentage(score, total_score) ==
    IF total_score > 0 THEN <<score * 100, total_score>> ELSE <<0, 1>>

\* the test of line 316 with the threshold one lower
AdoptsBestAtOne(best_score) == best_score >= MIN_PURPOSE_SCORE - 1

\* line 316: if best_score >= 2
AdoptsBest(best_score) == best_score >= MIN_PURPOSE_SCORE

\* determine_conversation_purpose: max(scores.items(), key=...) is the first
\* item of the dict with the largest score
determine_conversation_purpose(text) ==
    LET clean == clean_text(text)
        score(i) == PurposeScore(PURPOSE_INDICATORS[i], clean)
        n == Len(PURPOSE_INDICATORS)
        best == CHOOSE i \in 1 .. n :
                   /\ \A j \in 1 .. n : score(j) <= score(i)
                   /\ \A j \in 1 .. i - 1 : score(j) < score(i)
    IN [main_purpose |-> IF AdoptsBest(score(best))
                         THEN PURPOSE_INDICATORS[best].name
                         ELSE "obshchee obsuzhdenie",
        scores |-> [i \in 1 .. n |-> score(i)],
        purpose_probabilities |->
            [i \in 1 .. n |-> Percentage(score(i), SumScores(clean))]]

\* extract_topics_with_model: every text of the model is shorter than the
\* 200 characters below which line 339 returns []
extract_topics_with_model(text) == <<>>

\* generate_tags(text, classify=True)
generate_tags(text, h) ==
    IF text = <<>> \/ Len(Strip(text)) < MIN_TEXT_LENGTH
    THEN [keywords |-> <<>>, keyphrases |-> <<>>, categories |-> <<>>,
          topics |-> <<>>, purpose |-> "neizvestno"]
    ELSE LET classified == Len(text) > CLASSIFY_MIN_LENGTH
         IN [keywords |-> extract_keywords(text, max_keywords, h),
             keyphrases |-> extract_keyphrases(text, max_phrases, h),
             categories |-> IF classified
                            THEN classify_conversation(text, h) ELSE <<>>,
             topics |-> IF classified
                        THEN extract_topics_with_model(text) ELSE <<>>,
             purpose |-> IF classified
                         THEN determine_conversation_purpose(text).main_purpose
                         ELSE "obshchee obsuzhdenie"]

\* ------------------------------------------------ services/tagging.py
\* the stop words of TextAnalyzer.__init__ without NLTK: "eto", "kak"
SvcStopWords == {<<"e", "t", "o">>, <<"k", "a", "k">>}

\* the dict categories of TextAnalyzer.categorize_text, with part of the
\* keywords of three of its categories
SvcCategories ==
    <<[name |-> "biznes",
       keywords |-> << <<"p", "r", "o", "e", "k", "t">> >>],
      [name |-> "tehnicheskij",
       keywords |-> << <<"k", "o", "d">> >>],
      [name |-> "lichnyj",
       keywords |-> << <<"d", "o", "m">> >>]>>

\* TextAnalyzer.preprocess_text without NLTK: the runs of word characters of
\* the lower-cased text that are no stop words and longer than two
RECURSIVE SvcKept(_)
SvcKept(tokens) ==
    IF tokens = <<>> THEN <<>>
    ELSE (IF tokens[1] \notin SvcStopWords /\ Len(tokens[1]) > 2
          THEN <<tokens[1]>> ELSE <<>>) \o SvcKept(Tail(tokens))
preprocess_text(text) == SvcKept(Split(clean_text(text)))

\* the loop of categorize_text (lines 205-209)
RECURSIVE Found(_, _, _)
Found(table, text_lower, tokens) ==
    IF table = <<>> THEN <<>>
    ELSE (IF \E i \in 1 .. Len(table[1].keywords) :
                 \/ Contains(table[1].keywords[i], text_lower)
                 \/ table[1].keywords[i] \in Range(tokens)
          THEN <<table[1].name>> ELSE <<>>)
            \o Found(Tail(table), text_lower, tokens)

\* TextAnalyzer.categorize_text: found_categories or ["obshchij"]
categorize_text(text) ==
    LET found_categories ==
            Found(SvcCategories,
                  AsSeq([i \in 1 .. Len(text) |-> Lower(text[i])], Len(text)),
                  preprocess_text(text))
    IN IF found_categories = <<>> THEN <<"obshchij">> ELSE found_categories

\* ------------------------------------------------ update_tags.py
\* a note file that holds a transcript and no tags
Untagged(text) == [text |-> text]

\* lines 84-89: the note data with the fields of tags_data stored in it
\* (purpose_details, the scores behind purpose, is left out of the model)
Tagged(data, tags_data) ==
    [f \in DOMAIN data
             \cup {"tags", "keyphrases", "categories", "topics", "purpose"}
       |-> IF f = "tags" THEN tags_data.keywords
           ELSE IF f \in {"keyphrases", "categories", "topics", "purpose"}
                THEN tags_data[f]
                ELSE data[f]]

\* update_transcription_tags regenerating whatever the note holds
ShouldUpdateAlways(force, data) == TRUE

\* should_update of update_transcription_tags (lines 69-73)
ShouldUpdate(force, data) ==
    \/ force
    \/ "categories" \notin DOMAIN data
    \/ "topics" \notin DOMAIN data
    \/ "purpose" \notin DOMAIN data

\* ------------------------------------------------ the texts tagged
\* the words texts are made of: "plan", "grafik", "kod", "otcet", the stop
\* word "eto", "Plan," with a capital and a comma, "domik", which holds the
\* trigger term "dom", and the inflected "planami"
Vocabulary ==
    {<<"p", "l", "a", "n">>, <<"g", "r", "a", "f", "i", "k">>,
     <<"k", "o", "d">>, <<"o", "t", "c", "e", "t">>, <<"e", "t", "o">>,
     <<"P", "l", "a", "n", ",">>, <<"d", "o", "m", "i", "k">>,
     <<"p", "l", "a", "n", "a", "m", "i">>}

\* one long word, which takes a text to the length generate_tags wants for
\* classification
Pad == AsSeq([i \in 1 .. CLASSIFY_MIN_LENGTH |-> "x"], CLASSIFY_MIN_LENGTH)

\* the text of the words ws, after the long word if pad
RawText(ws, pad) ==
    IF pad THEN Join(<<Pad>> \o ws) ELSE Join(ws)

Texts ==
    {RawText(ws, pad) :
        ws \in UNION {[1 .. n -> Vocabulary] : n \in 0 .. MaxWords},
        pad \in BOOLEAN}

\* the functions a behaviour of TagSpec calls, as values of impl
TagOps == {"tags", "keywords", "classify", "purpose", "retag"}

\* tg_ret before update_transcription_tags was called
NoCall == [called |-> FALSE, force |-> FALSE, updated |-> FALSE]

\* generate_tags(tg_text), called by a process with hash seed h
TagGenerate ==
    /\ impl = "tags" /\ tg_calls < MaxCalls
    /\ \E h \in BOOLEAN : tg_out' = Append(tg_out, generate_tags(tg_text, h))
    /\ tg_calls' = tg_calls + 1
    /\ UNCHANGED <<impl, now, diskVars, cbVars, svcVars, apiVars, tg_text,
                   tg_note, tg_ret>>

\* the values of max_tags extract_keywords is called with: its default and
\* the smallest one that still returns a keyword
KeywordLimits == {1, max_tags}

\* extract_keywords(tg_text, max_tags=limit) and extract_keyphrases(tg_text)
\* with its default arguments
TagExtract ==
    /\ impl = "keywords" /\ tg_calls < MaxCalls
    /\ \E h \in BOOLEAN, limit \in KeywordLimits :
         tg_out' = Append(tg_out,
                     [limit |-> limit,
                      keywords |-> extract_keywords(tg_text, limit, h),
                      keyphrases |->
                          extract_keyphrases(tg_text, max_phrases_default, h)])
    /\ tg_calls' = tg_calls + 1
    /\ UNCHANGED <<impl, now, diskVars, cbVars, svcVars, apiVars, tg_text,
                   tg_note, tg_ret>>

\* classify_conversation(tg_text) or TextAnalyzer().categorize_text(tg_text)
TagClassify ==
    /\ impl = "classify" /\ tg_calls < MaxCalls
    /\ \E h \in BOOLEAN :
         \/ tg_out' = Append(tg_out,
                        [fn |-> "classify_conversation",
                         categories |-> classify_conversation(tg_text, h)])
         \/ /\ ~h
            /\ tg_out' = Append(tg_out,
                           [fn |-> "categorize_text",
                            categories |-> categorize_text(tg_text)])
    /\ tg_calls' = tg_calls + 1
    /\ UNCHANGED <<impl, now, diskVars, cbVars, svcVars, apiVars, tg_text,
                   tg_note, tg_ret>>

\* determine_conversation_purpose(tg_text)
TagPurpose ==
    /\ impl = "purpose" /\ tg_calls < MaxCalls
    /\ tg_out' = Append(tg_out, determine_conversation_purpose(tg_text))
    /\ tg_calls' = tg_calls + 1
    /\ UNCHANGED <<impl, now, diskVars, cbVars, svcVars, apiVars, tg_text,
                   tg_note, tg_ret>>

\* update_transcription_tags(file_path, force) on the note tg_note, run by
\* a process with hash seed h
UpdateTranscriptionTags ==
    /\ impl = "retag" /\ tg_calls < MaxCalls
    /\ \E force \in BOOLEAN, h \in BOOLEAN :
         LET text == tg_note.text
             updates == text # <<>> /\ ShouldUpdate(force, tg_note)
         IN /\ (~updates => ~h)
            /\ tg_note' = IF updates
                          THEN Tagged(tg_note, generate_tags(text, h))
                          ELSE tg_note
            /\ tg_ret' = [called |-> TRUE, force |-> force,
                          updated |-> updates]
    /\ tg_calls' = tg_calls + 1
    /\ UNCHANGED <<impl, now, diskVars, cbVars, svcVars, apiVars, tg_text,
                   tg_out>>

\* ------------------------------------------------------------ properties
AllSilence(s) == \A i \in 1 .. Len(s) : s[i] = "silence"
HasSpeech(s) == \E i \in 1 .. Len(s) : s[i] = "speech"

\* recorder threads that are in a session or on their way to one
SvcActive == {t \in Threads : rt[t].pc \notin {"dead", "exiting"}}
\* recorder subprocesses that have not exited
ApiActive == {p \in Procs : procs[p] = "alive"}
\* a recorder thread between start_recording and the end of its capture loop
SvcCapturing(t) == rt[t].pc \in {"capture", "process"}

\* C1: while every frame delivered to a session was classified as silence,
\* the session stays in Listening in both recorders: it is not recording,
\* its buffer is empty and no silence timeout has ended it.
C1_AllSilenceStaysListening ==
    /\ (impl = "cb" /\ cb_pc = "sleeping" /\ AllSilence(cb_fed)
          => ~is_recording /\ audio_buffer = <<>> /\ cb_stream = "active")
    /\ \A t \in Threads :
         (rt[t].pc \in {"capture", "process", "stop"} /\ AllSilence(rt[t].frames))
            => rt[t].frames = <<>>

\* C2: a session in Recording goes on exactly while the time since the last
\* speech frame is below the silence threshold, and is finalized at the
\* first frame at which it has reached the threshold.
C2_FinalizeAtThreshold ==
    /\ (impl = "cb" /\ cb_pc = "sleeping" /\ is_recording
          => now - last_voice_time < SILENCE_THRESHOLD)
    /\ (impl = "cb" /\ cb_pc = "sleeping" /\ cb_stream = "stopped"
          => now - last_voice_time >= SILENCE_THRESHOLD)
    /\ \A t \in Threads :
         (SvcCapturing(t) /\ rt[t].recording /\ HasSpeech(rt[t].frames))
            => rt[t].silence_frames < max_silence_frames

\* C3: at most one recording session (recorder thread of api/recorder.py,
\* recorder subprocess of recorder_api.py) is active at any time, and a
\* start request handled while one is active answers "error", starts
\* nothing and leaves the stored handle and the session as they are.
C3_SingleSession ==
    /\ [](Cardinality(SvcActive) <= 1 /\ Cardinality(ApiActive) <= 1)
    /\ [][ /\ (SvcStartRequest /\ SvcActive # {})
                => /\ svc_resp' = "error"
                   /\ UNCHANGED <<svc_recorder_process, rt, svc_spawned>>
           /\ (ApiStartRequest /\ ApiActive # {})
                => /\ api_resp' = "error"
                   /\ UNCHANGED <<api_recorder_process, procs, mon,
                                  api_spawned>> ]_vars

\* C3 witness: a start request was answered "error" while a recorder thread
\* is capturing and is the stored handle.
C3_Witness ==
    /\ impl = "svc" /\ svc_resp = "error"
    /\ \E t \in Threads : SvcCapturing(t) /\ svc_recorder_process = t

\* C4: once the stop signal has cleared the running flag, the capture loop
\* handles at most the frame in progress, and when it has been left the
\* input stream is released, also when an exception was raised on the way.
C4_StopExitsPromptly ==
    /\ cb_after_stop <= 1
    /\ (cb_pc \in {"after_rec", "transcribing", "loop_head", "done"}
          => cb_stream = "closed")
    /\ \A t \in Threads :
         /\ rt[t].after_stop <= 1
         /\ rt[t].pc = "after_stop" => rt[t].stream # "open"

\* C5: stop_recording moves the recorder to Stopped whatever happens during
\* the call: when it has returned, recording is False and the stream handle
\* is released; a call on a stopped recorder returns None and changes
\* neither the recorder nor the audio directory.
C5_StopIdempotent ==
    /\ [](\A t \in Threads :
            rt[t].pc = "after_stop"
               => ~rt[t].recording /\ rt[t].stream = "none")
    /\ [][\A t \in Threads :
            (rt[t].pc = "stop" /\ ~rt[t].recording
                               /\ rt'[t].pc = "after_stop")
               => /\ rt'[t].audio_file = None
                  /\ rt'[t].frames = rt[t].frames
                  /\ rt'[t].stream = rt[t].stream
                  /\ audio_files' = audio_files]_vars

\* C6: a stop request handled while no session is running answers "error"
\* and leaves the published status and the stored handle unchanged.
C6_StopWithoutSession ==
    [][ /\ (SvcStopRequest /\ SvcActive = {})
             => /\ svc_resp' = "error"
                /\ UNCHANGED <<svc_recorder_status, svc_recorder_process>>
        /\ (ApiStopRequest /\ ApiNotRunning(api_recorder_process, procs))
             => /\ api_resp' = "error"
                /\ UNCHANGED <<recorder_status, api_recorder_process>> ]_vars

\* C7: a session finalized or stopped with an empty buffer returns None and
\* writes no file: no clip file without audio ever exists.
C7_EmptyBufferNoClip ==
    /\ \A c \in DOMAIN audio_files : audio_files[c] # "empty"
    /\ (cb_pc = "after_rec" /\ audio_buffer = <<>> => cb_audio_file = None)
    /\ \A t \in Threads :
         (rt[t].pc = "after_stop" /\ rt[t].frames = <<>>)
            => rt[t].audio_file = None

\* C7 witness: a callback session that was delivered frames has ended with
\* an empty buffer, returned None and left the audio directory empty.
C7_Witness ==
    /\ impl = "cb" /\ cb_pc = "after_rec" /\ cb_stream = "closed"
    /\ Len(cb_fed) > 0 /\ audio_buffer = <<>>
    /\ cb_audio_file = None /\ audio_files = EmptyMap

\* C8: in continuous mode capture never waits for transcription: the thread
\* that runs the capture loop is never inside transcribe_audio while
\* recording is meant to go on.
C8_CaptureNeverWaits ==
    /\ (cb_continuous /\ cb_running => cb_pc # "transcribing")
    /\ \A t \in Threads :
         (rt[t].continuous /\ svc_running) => rt[t].pc # "transcribe"

\* C9: a clip on which the engine raised is kept, has no note, and is among
\* the files a bulk transcription selects.
C9_FailureRetryable ==
    \A c \in engine_failed :
       /\ c \in DOMAIN audio_files
       /\ c \notin DOMAIN notes
       /\ \E i \in 1 .. Len(to_transcribe(audio_files, notes)) :
             to_transcribe(audio_files, notes)[i] = c

\* C10: when the engine has succeeded with empty text, transcribe_audio of
\* the service recorder returns a value distinct from the failure value
\* None.
C10_EmptyTextIsSuccess ==
    \A t \in Threads :
       rt[t].engine = "empty" => rt[t].transcription # None

\* C11: a voice-detector error on one frame is read as not-speech for that
\* frame only: it never ends a session of the service recorder, and in the
\* callback recorder the frame neither starts a recording nor counts as
\* voice, the stream staying open unless the silence threshold has elapsed.
C11_VadErrorIsSilence ==
    /\ [](\A t \in Threads : rt[t].ended_by # "vad_error")
    /\ [][(/\ impl = "cb"
           /\ Len(cb_fed') = Len(cb_fed) + 1
           /\ cb_fed'[Len(cb_fed')] = "bad")
          => /\ last_voice_time' = last_voice_time
             /\ (~is_recording => ~is_recording' /\ audio_buffer' = <<>>)
             /\ (cb_stream' = "stopped"
                    => CbSilenceElapsed(now', last_voice_time))]_vars

\* C12: a session that a device error ended is stopped and its owner is told
\* so: the owner does not go on as after a session that ended normally (to
\* the test of the returned clip, then to transcription), and the failed
\* session's stream is not left open.
C12_DeviceErrorReported ==
    /\ (cb_error => cb_stream = "closed"
                    /\ cb_pc \notin {"after_rec", "transcribing"})
    /\ \A t \in Threads :
          rt[t].ended_by = "read_error"
             => rt[t].pc \notin {"stop", "after_stop", "transcribe"}

\* C13: publishing a status update never raises to the publisher, whether
\* or not clients are connected: a recorder thread that publishes
\* "recording" goes on into record_and_transcribe with that status
\* published, and a thread that publishes its outcome publishes the status
\* of that outcome.
C13_PublishNeverRaises ==
    [][\A t \in Threads :
         /\ (rt[t].pc = "t_start" /\ rt'[t].pc # "t_start"
                => rt'[t].pc = "loop_head"
                   /\ svc_recorder_status' = "recording")
         /\ (rt[t].pc = "report" /\ rt'[t].pc # "report"
                => svc_recorder_status' =
                      ReportStatus(rt[t].audio_file, rt[t].transcription))]_vars

\* C14: the value get_status returned is a snapshot: what a reader finds in
\* it, the nested transcribe_progress record included, is what the status
\* was when get_status returned, whatever updates followed.
C14_SnapshotIsStable ==
    snap # None => SnapProgress(snap, recorder_status) = snap.then

\* C15: generate_tags is deterministic: all calls with the same text return
\* the same keywords in the same order, the same key phrases in the same
\* order and the same set of categories, whichever process makes them.
C15_GenerateTagsDeterministic ==
    impl = "tags"
       => \A i, j \in 1 .. Len(tg_out) :
             /\ tg_out[i].keywords = tg_out[j].keywords
             /\ tg_out[i].keyphrases = tg_out[j].keyphrases
             /\ Range(tg_out[i].categories) = Range(tg_out[j].categories)

\* two calls on a text with several keywords, a key phrase and two
\* categories, which the two calls list in different orders
C15_Witness ==
    /\ impl = "tags" /\ Len(tg_out) = 2
    /\ Len(tg_out[1].keywords) >= 2
    /\ Len(tg_out[1].keyphrases) >= 1
    /\ Len(tg_out[1].categories) >= 2
    /\ tg_out[1].categories # tg_out[2].categories

C17_CategoryIffTrigger ==
    impl = "classify"
       => \A k \in 1 .. Len(tg_out) :
             LET table == IF tg_out[k].fn = "classify_conversation"
                          THEN CATEGORIES ELSE SvcCategories
                 names == {table[i].name : i \in 1 .. Len(table)}
                 matched == {table[i].name : i \in
                               {i \in 1 .. Len(table) :
                                  \E n \in 1 .. Len(table[i].keywords) :
                                     Contains(table[i].keywords[n],
                                              clean_text(tg_text))}}
                 result == tg_out[k].categories
             IN /\ result # <<>>
                /\ (matched # {} => Range(result) = matched)
                /\ (matched = {} => Len(result) = 1 /\ result[1] \notin names)

\* C18: determine_conversation_purpose returns a purpose of the highest
\* score when that score is at least 2, and the default label when it is
\* below 2.
C18_PurposeThreshold ==
    impl = "purpose"
       => \A k \in 1 .. Len(tg_out) :
             LET n == Len(PURPOSE_INDICATORS)
                 score(i) == PurposeScore(PURPOSE_INDICATORS[i],
                                          clean_text(tg_text))
                 top == {i \in 1 .. n : \A j \in 1 .. n : score(j) <= score(i)}
                 main == tg_out[k].main_purpose
             IN \A i \in top :
                   /\ (score(i) >= 2
                         => \E b \in top : main = PURPOSE_INDICATORS[b].name)
                   /\ (score(i) < 2 => main = "obshchee obsuzhdenie")

\* a call on a text in which "planirovanie" scores 1 and the other purpose
\* 0, answered with the default label
C18_Witness ==
    /\ impl = "purpose" /\ Len(tg_out) >= 1
    /\ PurposeScore(PURPOSE_INDICATORS[1], clean_text(tg_text)) = 1
    /\ PurposeScore(PURPOSE_INDICATORS[2], clean_text(tg_text)) = 0
    /\ tg_out[1].main_purpose = "obshchee obsuzhdenie"

\* C19: for a text of fewer than 10 characters extract_keywords and
\* extract_keyphrases return empty lists.
C19_ShortTextNoKeywords ==
    impl = "keywords" /\ Len(tg_text) < 10
       => \A k \in 1 .. Len(tg_out) :
             tg_out[k].keywords = <<>> /\ tg_out[k].keyphrases = <<>>

\* C20: in the service recorder, when a session has ended and a clip was
\* saved for it, the clip's path is what record_and_transcribe holds as
\* audio_file after line 224, so it is handed to transcribe_audio.
C20_SavedClipIsTranscribed ==
    \A t \in Threads :
       rt[t].pc = "after_stop" /\ rt[t].saved # None
          => rt[t].audio_file = rt[t].saved

\* the frames of s from its first speech frame on; none if s has no speech
SinceFirstSpeech(s) ==
    IF ~HasSpeech(s) THEN <<>>
    ELSE LET k == CHOOSE i \in 1 .. Len(s) :
                     /\ s[i] = "speech"
                     /\ \A j \in 1 .. i - 1 : s[j] # "speech"
         IN SubSeq(s, k, Len(s))

\* C21: while a session is recording, a speech frame has been received
\* since the session started, and the buffer holds, in arrival order, every
\* frame received from the first speech frame on.
C21_BufferSinceFirstSpeech ==
    /\ (impl = "cb" /\ cb_pc = "sleeping" /\ is_recording
          => /\ HasSpeech(cb_fed)
             /\ audio_buffer = SinceFirstSpeech(cb_fed))
    /\ \A t \in Threads :
         (SvcCapturing(t) /\ rt[t].recording)
            => /\ HasSpeech(rt[t].frames)
               /\ rt[t].frames = SinceFirstSpeech(rt[t].frames)

\* C22: in recorder_api, while the stored recorder subprocess is alive,
\* recorder_status says so: running is True and status is not "stopped",
\* whatever the monitor threads of earlier subprocesses do.
C22_AliveProcessShownRunning ==
    (impl = "api" /\ ApiAlreadyRunning(api_recorder_process, procs))
       => /\ recorder_status.running
          /\ recorder_status.status # "stopped"

\* C23: a start request that begins a session of the service recorder
\* begins it with the stop flag clear, so that the capture loop of
\* record_and_transcribe is entered whatever an earlier stop left behind,
\* and the thread it starts replaces a published "stopping" when it sets out.
C23_StartAfterStopRecords ==
    [][ /\ (svc_spawned' = svc_spawned + 1 => svc_running')
        /\ \A t \in Threads :
             (rt[t].pc = "t_start" /\ rt'[t].pc # "t_start")
                => svc_recorder_status' # "stopping" ]_vars

\* samples of one voice-detector frame under the configuration
ConfiguredFrameSamples == (SAMPLE_RATE * FRAME_DURATION_MS) \div 1000

\* C24: in both recorders every frame handed to the voice-activity detector
\* has SAMPLE_RATE * FRAME_DURATION_MS / 1000 samples (480), and the frame
\* count of the silence timeout is computed from that same frame size; no
\* session captures with another frame size.
C24_FrameSizeMatchesConfig ==
    /\ ConfiguredFrameSamples = 480
    /\ (impl = "cb" /\ Len(cb_fed) > 0
          => CbVadSamples = ConfiguredFrameSamples)
    /\ \A t \in Threads :
         Len(rt[t].frames) > 0
            => /\ SvcVadSamples = ConfiguredFrameSamples
               /\ SvcSilenceChunk = ConfiguredFrameSamples

\* how often the words of phrase occur in a row in the list tokens
Occurrences(phrase, tokens) ==
    LET words == Split(phrase)
    IN Cardinality({i \in 1 .. Len(tokens) - Len(words) + 1 :
                       SubSeq(tokens, i, i + Len(words) - 1) = words})

\* C25: every phrase extract_keyphrases returns is made of two or three
\* words of the text that are no stop words and have three letters or more,
\* and occurs at least twice in the text: a phrase that occurs once is never
\* returned.
C25_KeyphrasesOccurTwice ==
    impl = "keywords"
       => \A k \in 1 .. Len(tg_out) :
             \A p \in 1 .. Len(tg_out[k].keyphrases) :
                LET phrase == tg_out[k].keyphrases[p]
                    words == Split(phrase)
                IN /\ Len(words) \in {2, 3}
                   /\ \A w \in 1 .. Len(words) :
                         /\ words[w] \notin STOPWORDS
                         /\ Len(words[w]) >= 3
                   /\ Occurrences(phrase, Split(clean_text(tg_text))) >= 2

\* a token that passes the keyword filter: four characters or more, no stop
\* word, not made of digits only nor of hyphens only
PassesFilter(token) ==
    /\ Len(token) >= 4
    /\ token \notin STOPWORDS
    /\ ~IsDigit(token)
    /\ \E i \in 1 .. Len(token) : token[i] # "-"

\* the canonical forms of the tokens of text that pass the filter, in the
\* order of the tokens
CanonicalForms(text) ==
    LET passing == SelectSeq(Split(clean_text(text)), PassesFilter)
    IN [i \in 1 .. Len(passing) |-> normalize_word_improved(passing[i])]

\* the place of the first occurrence of x in the list s
FirstAt(x, s) == CHOOSE i \in 1 .. Len(s) :
                    s[i] = x /\ \A j \in 1 .. i - 1 : s[j] # x

\* a comes before b among the keywords of a text with the forms s: it is
\* more frequent, or as frequent and met earlier
RanksBefore(a, b, s) ==
    \/ Count(a, s) > Count(b, s)
    \/ Count(a, s) = Count(b, s) /\ FirstAt(a, s) < FirstAt(b, s)

C27_TagsIncludeCategories ==
    (impl = "tags" /\ Len(tg_text) >= 10)
       => \A k \in 1 .. Len(tg_out) :
             \A c \in 1 .. Len(CATEGORIES) :
                (\E i \in 1 .. Len(CATEGORIES[c].keywords) :
                    Contains(CATEGORIES[c].keywords[i], clean_text(tg_text)))
                   => CATEGORIES[c].name \in Range(tg_out[k].categories)

\* the places of s at which sub occurs
OccurrencesIn(sub, s) ==
    Cardinality({i \in 1 .. Len(s) - Len(sub) + 1 :
                    SubSeq(s, i, i + Len(sub) - 1) = sub})

\* the occurrences of the indicators of purpose in clean
RECURSIVE IndicatorOccurrences(_, _)
IndicatorOccurrences(indicators, clean) ==
    IF indicators = <<>> THEN 0
    ELSE OccurrencesIn(indicators[1], clean)
            + IndicatorOccurrences(Tail(indicators), clean)

\* C28: the raw score of a purpose is the number of occurrences of its
\* indicators in the cleaned text, its probability is that score as a
\* share of the scores of all purposes, and a purpose whose indicators are
\* the only ones that occur, two times or more, is the main purpose with
\* 100 per cent.
C28_PurposeCountsOccurrences ==
    impl = "purpose"
       => \A k \in 1 .. Len(tg_out) :
             LET n == Len(PURPOSE_INDICATORS)
                 clean == clean_text(tg_text)
                 raw(i) == IndicatorOccurrences(
                              PURPOSE_INDICATORS[i].indicators, clean)
                 total == raw(1) + raw(2)
                 prob(i) == tg_out[k].purpose_probabilities[i]
             IN \A i \in 1 .. n :
                   /\ tg_out[k].scores[i] = raw(i)
                   /\ total > 0 => prob(i)[1] * total = raw(i) * 100 * prob(i)[2]
                   /\ (raw(i) >= 2 /\ total = raw(i))
                         => /\ tg_out[k].main_purpose
                                  = PURPOSE_INDICATORS[i].name
                            /\ prob(i)[1] = 100 * prob(i)[2]

\* C29: when no purpose indicator occurs in the text, every purpose
\* probability is 0 and the purpose reported by
\* determine_conversation_purpose, and by generate_tags for a text it
\* classifies, is the label "neizvestno".
C29_NoIndicatorIsUnknown ==
    /\ (impl = "purpose" /\ SumScores(clean_text(tg_text)) = 0)
          => \A k \in 1 .. Len(tg_out) :
                /\ \A i \in 1 .. Len(PURPOSE_INDICATORS) :
                      tg_out[k].purpose_probabilities[i][1] = 0
                /\ tg_out[k].main_purpose = "neizvestno"
    /\ (impl = "tags" /\ SumScores(clean_text(tg_text)) = 0)
          => \A k \in 1 .. Len(tg_out) : tg_out[k].purpose = "neizvestno"

\* the bulk transcriptions that have begun and not yet returned
BulkInProgress == {j \in Jobs : jobs[j].pc = "files"}

\* C30: recorder_status["transcribing"] is True exactly while some bulk
\* transcription is in progress, also when two of them overlap, and
\* processed_files never exceeds total_files.
C30_TranscribingWhileBulkRuns ==
    impl \in BulkImpls
       => /\ recorder_status.transcribing = (BulkInProgress # {})
          /\ recorder_status.processed_files <= recorder_status.total_files


\* the recorders before anything has run
RecorderInit ==
    /\ now = 0
    /\ audio_files = EmptyMap
    /\ notes = EmptyMap
    /\ engine_failed = {}
    /\ cb_pc = "loop_head"
    /\ cb_running = TRUE
    /\ cb_continuous \in BOOLEAN
    /\ is_recording = FALSE
    /\ audio_buffer = <<>>
    /\ last_voice_time = 0
    /\ cb_stream = "closed"
    /\ cb_fed = <<>>
    /\ cb_audio_file = None
    /\ cb_sessions = 0
    /\ cb_after_stop = 0
    /\ cb_error = FALSE
    /\ svc_running = TRUE
    /\ svc_recorder_process = 0
    /\ svc_recorder_status = "stopped"
    /\ svc_loop = "idle"
    /\ svc_resp = "none"
    /\ svc_spawned = 0
    /\ svc_sessions = 0
    /\ rt = [t \in Threads |-> DeadThread]
    /\ IF impl \in BulkImpls
       THEN \* start_recorder has started subprocess 1, its monitor reads it
            /\ api_recorder_process = 1
            /\ procs = [p \in Procs |-> IF p = 1 THEN "alive" ELSE "none"]
            /\ api_spawned = 1
            /\ recorder_status =
                 [running |-> TRUE, status |-> "recording",
                  transcribing |-> FALSE, total_files |-> 0,
                  processed_files |-> 0, progress_file |-> None]
            /\ mon = [p \in Procs |-> IF p = 1 THEN [pc |-> "loop", reads |-> 1]
                                       ELSE IdleMonitor]
       ELSE /\ api_recorder_process = 0
            /\ procs = [p \in Procs |-> "none"]
            /\ api_spawned = 0
            /\ recorder_status =
                 [running |-> FALSE, status |-> "stopped",
                  transcribing |-> FALSE, total_files |-> 0,
                  processed_files |-> 0, progress_file |-> None]
            /\ mon = [p \in Procs |-> IdleMonitor]
    /\ jobs = [j \in Jobs |-> IdleJob]
    /\ api_resp = "none"
    /\ snap = None

Init ==
    /\ impl \in {"cb", "svc", "api", "bulk", "read"}
    /\ RecorderInit
    /\ tg_text = <<>>
    /\ tg_calls = 0
    /\ tg_out = <<>>
    /\ tg_note = Untagged(<<>>)
    /\ tg_ret = NoCall

Next ==
    \/ CbCallback
    \/ CbSignal
    \/ CbStartSession
    \/ CbFinishSession
    \/ CbAfterRecording
    \/ CbTranscribe
    \/ SvcSignal
    \/ SvcThread
    \/ SvcStartRequest
    \/ SvcStartAssign
    \/ SvcStopRequest
    \/ ApiStartRequest
    \/ ApiStopRequest
    \/ ApiProcExit
    \/ ApiProcRecords
    \/ ApiMonitor
    \/ ApiTranscribeAllRequest
    \/ ApiBulkTranscribe
    \/ ApiGetStatus

Spec == Init /\ [][Next]_vars

\* The tagging functions, each called on a text of Texts.  A note that
\* update_transcription_tags is given holds the text and either no tags or
\* the tags an earlier run has stored.
TagInit ==
    /\ impl \in TagOps
    /\ RecorderInit
    /\ tg_text \in Texts
    /\ tg_calls = 0
    /\ tg_out = <<>>
    /\ IF impl = "retag"
       THEN \/ tg_note = Untagged(tg_text)
            \/ \E h \in BOOLEAN :
                 tg_note = Tagged(Untagged(tg_text), generate_tags(tg_text, h))
       ELSE tg_note = Untagged(<<>>)
    /\ tg_ret = NoCall

TagNext ==
    \/ TagGenerate
    \/ TagExtract
    \/ TagClassify
    \/ TagPurpose
    \/ UpdateTranscriptionTags

TagSpec == TagInit /\ [][TagNext]_vars

====
